---- MODULE Spec2Model ----
(***************************************************************************)
(* SigaNG: the slowdown state machine (SlowMotionManager) and the          *)
(* animation event dispatcher (AnimationEventHandler).                     *)
(*                                                                         *)
(* Numbers: a skill level is kept in tenths (25.1 is 251), a multiplier in *)
(* percent (0.7f is 70), so that a magnitude 100 - 100 * multiplier is the *)
(* integer 100 - percent.                                                  *)
(*                                                                         *)
(* Engine: an actor's active effects are the set of debuff spells cast on  *)
(* it and not yet dispelled, each with the magnitude it was cast with      *)
(* (CastSpellImmediate's magnitude override).  Casting a spell that is     *)
(* already active on the actor replaces that spell's effect.  An Actor is  *)
(* its own MagicTarget; its instant MagicCaster may be absent, which is an *)
(* input of every apply.                                                   *)
(***************************************************************************)
EXTENDS Integers, Sequences, FiniteSets, TLC

VARIABLES
    actorStates,    \* SlowMotionManager::actorStates, FormID -> ActorSlowState
    effects,        \* engine: per actor, the active debuff effects
    handles,        \* the four cached spell pointers: TRUE when resolved
    config,         \* Config singleton
    mutex,          \* actorStatesMutex: the thread holding it, or NoThread
    pc,             \* per thread: where it is in the call it is making
    todo,           \* per thread: the calls left in the handler it runs
    slowed,         \* per thread: what its IsActorSlowed call returned
    subject,        \* the actor whose calls and events a behaviour follows
    last,           \* history: the public call that completed last, or
                    \*   "none" when an event was processed since
    again,          \* history: that call repeated the call before it
    pre,            \* history: actorStates and effects before that call
                    \*   or event
    event           \* history: the animation event processed last, with the
                    \*   calls it made, or "none" when a call was made or
                    \*   the configuration loaded since

store == <<actorStates, effects>>
threads == <<mutex, pc, todo, slowed>>
history == <<last, again, pre, event>>
vars == <<actorStates, effects, handles, config, mutex, pc, todo, slowed,
          subject, last, again, pre, event>>

----------------------------------------------------------------------------
(* The universe of the model *)

\* Actor references: the player, the non-player actors, and nullptr.
NumNPCs == 1
Player == <<"player", 0>>
NPCs == {<<"npc", i>> : i \in 1..NumNPCs}
Actors == {Player} \cup NPCs
NullActor == <<"nullptr", 0>>

SlowType == {"Bow", "Crossbow", "CastLeft", "CastRight", "DualCast"}

Spells == {"bowDebuffSpell", "castingDebuffSpell", "dualCastDebuffSpell",
           "crossbowDebuffSpell"}
NullSpell == "nullptr"

\* Skill levels (tenths) the direct calls are made with: tiers 0 and 2.
Skills == {200, 600}

DefaultConfig ==
    [ applyToNPCs |-> FALSE,
      applySlowdownCastingToNPCsOnly |-> FALSE,
      enableBowDebuff |-> TRUE,
      enableCrossbowDebuff |-> TRUE,
      enableCastDebuff |-> TRUE,
      enableDualCastDebuff |-> TRUE,
      bowMultipliers |-> <<50, 60, 70, 80>>,
      crossbowMultipliers |-> <<50, 60, 70, 80>>,
      castMultipliers |-> <<50, 60, 70, 80>>,
      dualCastMultipliers |-> <<40, 50, 60, 70>> ]

ActorSlowState ==
    [ bowSlowActive |-> FALSE, castLeftActive |-> FALSE,
      castRightActive |-> FALSE, dualCastActive |-> FALSE ]

NoActorStates == [formID \in {} |-> ActorSlowState]
NoEffects == [a \in Actors |-> {}]

----------------------------------------------------------------------------
(* SlowMotionManager: the private helpers *)

IsActorSlowedInternal_AnyEntry(st, formID) == formID \in DOMAIN st

IsActorSlowedInternal(st, formID) ==
    IF formID \notin DOMAIN st THEN FALSE
    ELSE LET state == st[formID]
         IN  state.bowSlowActive \/ state.castLeftActive
                \/ state.castRightActive \/ state.dualCastActive

Tier_Exclusive(skillLevel) ==
    IF skillLevel < 250 THEN 0
    ELSE IF skillLevel < 500 THEN 1
    ELSE IF skillLevel < 750 THEN 2
    ELSE 3

Tier(skillLevel) ==
    IF skillLevel <= 250 THEN 0
    ELSE IF skillLevel <= 500 THEN 1
    ELSE IF skillLevel <= 750 THEN 2
    ELSE 3

Multiplier(type, tier) ==
    CASE type = "Bow" -> config.bowMultipliers[tier + 1]
      [] type = "Crossbow" -> config.crossbowMultipliers[tier + 1]
      [] type \in {"CastLeft", "CastRight"} -> config.castMultipliers[tier + 1]
      [] type = "DualCast" -> config.dualCastMultipliers[tier + 1]

CalculateMagnitude(skillLevel, type) ==
    100 - Multiplier(type, Tier(skillLevel))

Handle_Resolved(spell) == spell

\* The cached pointer for a spell: the spell, or nullptr when its lookup failed.
Handle(spell) == IF handles[spell] THEN spell ELSE NullSpell

ApplySpellWithMagnitude(fx, actor, spell, magnitude, caster) ==
    IF actor = NullActor \/ spell = NullSpell THEN fx
    ELSE IF caster
         THEN [fx EXCEPT ![actor] =
                  {e \in @ : e.spell # spell}
                     \cup {[spell |-> spell, magnitude |-> magnitude]}]
         ELSE fx

RemoveSpell(fx, actor, spell) ==
    IF actor = NullActor \/ spell = NullSpell THEN fx
    ELSE [fx EXCEPT ![actor] = {e \in @ : e.spell # spell}]

\* actorStates.try_emplace(formID)
TryEmplace(st, formID) ==
    IF formID \in DOMAIN st THEN st
    ELSE [f \in DOMAIN st \cup {formID} |->
             IF f = formID THEN ActorSlowState ELSE st[f]]

\* actorStates.erase(it)
Erase(st, formID) == [f \in DOMAIN st \ {formID} |-> st[f]]

----------------------------------------------------------------------------
(* SlowMotionManager: the public operations, as functions of the store    *)
(* s = [st |-> actorStates, fx |-> effects].  Each is the whole body of   *)
(* the operation, run under its lock_guard.                               *)

SetFlag_AfterHandleCheck(state, type) ==
    CASE type = "Bow" /\ handles["bowDebuffSpell"] ->
            [state EXCEPT !.bowSlowActive = TRUE]
      [] type = "Crossbow" /\ handles["crossbowDebuffSpell"] ->
            [state EXCEPT !.bowSlowActive = TRUE]
      [] type = "CastLeft" /\ handles["castingDebuffSpell"] ->
            [state EXCEPT !.castLeftActive = TRUE]
      [] type = "CastRight" /\ handles["castingDebuffSpell"] ->
            [state EXCEPT !.castRightActive = TRUE]
      [] OTHER -> state

\* The switch of ApplySlowdown: the flag a source sets (DualCast has no case).
SetFlag(state, type) ==
    CASE type \in {"Bow", "Crossbow"} -> [state EXCEPT !.bowSlowActive = TRUE]
      [] type = "CastLeft" -> [state EXCEPT !.castLeftActive = TRUE]
      [] type = "CastRight" -> [state EXCEPT !.castRightActive = TRUE]
      [] OTHER -> state

\* The switch of ApplySlowdown: the spell pointer a source selects.
SpellFor(type) ==
    CASE type = "Bow" -> Handle("bowDebuffSpell")
      [] type = "Crossbow" -> Handle("crossbowDebuffSpell")
      [] type \in {"CastLeft", "CastRight"} -> Handle("castingDebuffSpell")
      [] OTHER -> NullSpell

ApplySlowdownBody_NoNullCheck(s, actor, type, skillLevel, caster) ==
    [s EXCEPT !.st = [TryEmplace(s.st, actor) EXCEPT ![actor] = SetFlag(@, type)]]

ApplySlowdownBody(s, actor, type, skillLevel, caster) ==
    IF actor = NullActor THEN s
    ELSE
    LET st1 == TryEmplace(s.st, actor)
        state1 == SetFlag(st1[actor], type)
        isDualCast == state1.castLeftActive /\ state1.castRightActive
        state2 == IF isDualCast THEN [state1 EXCEPT !.dualCastActive = TRUE]
                  ELSE state1
        spellToApply == IF isDualCast THEN Handle("dualCastDebuffSpell")
                        ELSE SpellFor(type)
        type2 == IF isDualCast THEN "DualCast" ELSE type
        st2 == [st1 EXCEPT ![actor] = state2]
    IN  IF spellToApply = NullSpell THEN [st |-> st2, fx |-> s.fx]
        ELSE [st |-> st2,
              fx |-> ApplySpellWithMagnitude(s.fx, actor, spellToApply,
                        CalculateMagnitude(skillLevel, type2), caster)]

\* The switch of RemoveSlowdown: the flag a source clears.
ClearFlag(state, type) ==
    CASE type \in {"Bow", "Crossbow"} -> [state EXCEPT !.bowSlowActive = FALSE]
      [] type = "CastLeft" -> [state EXCEPT !.castLeftActive = FALSE]
      [] type = "CastRight" -> [state EXCEPT !.castRightActive = FALSE]
      [] type = "DualCast" -> [state EXCEPT !.dualCastActive = FALSE]

RederiveDualCast_Skip(state) == state

\* "If both cast hands are released, disable dual cast"
RederiveDualCast(state) ==
    IF ~state.castLeftActive \/ ~state.castRightActive
    THEN [state EXCEPT !.dualCastActive = FALSE]
    ELSE state

\* "Remove all active spells": the dispels RemoveSlowdown makes for the
\* flags as they are after the update.
RemoveActiveSpells(fx, actor, state) ==
    LET fx1 == IF state.bowSlowActive
               THEN RemoveSpell(RemoveSpell(fx, actor, Handle("bowDebuffSpell")),
                                actor, Handle("crossbowDebuffSpell"))
               ELSE fx
    IN  IF state.dualCastActive
        THEN RemoveSpell(fx1, actor, Handle("dualCastDebuffSpell"))
        ELSE IF state.castLeftActive \/ state.castRightActive
        THEN RemoveSpell(fx1, actor, Handle("castingDebuffSpell"))
        ELSE RemoveSpell(RemoveSpell(fx1, actor, Handle("castingDebuffSpell")),
                         actor, Handle("dualCastDebuffSpell"))

RemoveSlowdownBody(s, actor, type) ==
    IF actor = NullActor THEN s
    ELSE IF actor \notin DOMAIN s.st THEN s
    ELSE
    LET state == RederiveDualCast(ClearFlag(s.st[actor], type))
        fx2 == RemoveActiveSpells(s.fx, actor, state)
        st2 == [s.st EXCEPT ![actor] = state]
    IN  IF ~IsActorSlowedInternal(st2, actor)
        THEN [st |-> Erase(st2, actor), fx |-> fx2]
        ELSE [st |-> st2, fx |-> fx2]

RemoveAllSpells_RangedOnly(fx, actor) ==
    RemoveSpell(RemoveSpell(fx, actor, Handle("bowDebuffSpell")),
                actor, Handle("crossbowDebuffSpell"))

\* The four RemoveSpell calls of ClearAllSlowdowns and ClearAll.
RemoveAllSpells(fx, actor) ==
    RemoveSpell(
      RemoveSpell(
        RemoveSpell(
          RemoveSpell(fx, actor, Handle("bowDebuffSpell")),
          actor, Handle("crossbowDebuffSpell")),
        actor, Handle("castingDebuffSpell")),
      actor, Handle("dualCastDebuffSpell"))

ClearAllSlowdownsBody_NoErase(s, actor) ==
    IF actor = NullActor THEN s
    ELSE IF actor \notin DOMAIN s.st THEN s
    ELSE [st |-> s.st, fx |-> RemoveAllSpells(s.fx, actor)]

ClearAllSlowdownsBody(s, actor) ==
    IF actor = NullActor THEN s
    ELSE IF actor \notin DOMAIN s.st THEN s
    ELSE [st |-> Erase(s.st, actor), fx |-> RemoveAllSpells(s.fx, actor)]

ClearAllBody_KeepUnresolved(s, live) ==
    [st |-> [f \in DOMAIN s.st \ live |-> s.st[f]],
     fx |-> [a \in Actors |->
               IF a \in DOMAIN s.st /\ a \in live
               THEN RemoveAllSpells(s.fx, a)[a]
               ELSE s.fx[a]]]

\* live: the tracked FormIDs that TESForm::LookupByID still resolves.
ClearAllBody(s, live) ==
    [st |-> NoActorStates,
     fx |-> [a \in Actors |->
               IF a \in DOMAIN s.st /\ a \in live
               THEN RemoveAllSpells(s.fx, a)[a]
               ELSE s.fx[a]]]

IsActorSlowedBody(s, actor) ==
    IF actor = NullActor THEN FALSE
    ELSE IsActorSlowedInternal(s.st, actor)


----------------------------------------------------------------------------
(* Calls *)

Call(op, actor, type, skill, caster, live) ==
    [op |-> op, actor |-> actor, type |-> type, skill |-> skill,
     caster |-> caster, live |-> live, result |-> FALSE]

NoCall == Call("none", NullActor, "Bow", 0, FALSE, {})

ApplyCall(actor, type, skill, caster) ==
    Call("ApplySlowdown", actor, type, skill, caster, {})
RemoveCall(actor, type) == Call("RemoveSlowdown", actor, type, 0, FALSE, {})
ClearCall(actor) == Call("ClearAllSlowdowns", actor, "Bow", 0, FALSE, {})
ClearAllCall(live) == Call("ClearAll", NullActor, "Bow", 0, FALSE, live)
IsSlowedCall(actor) == Call("IsActorSlowed", actor, "Bow", 0, FALSE, {})

Store == [st |-> actorStates, fx |-> effects]
EmptyStore == [st |-> NoActorStates, fx |-> NoEffects]

\* One public call run to completion on store s.
Exec(s, c) ==
    CASE c.op = "ApplySlowdown" ->
            ApplySlowdownBody(s, c.actor, c.type, c.skill, c.caster)
      [] c.op = "RemoveSlowdown" -> RemoveSlowdownBody(s, c.actor, c.type)
      [] c.op = "ClearAllSlowdowns" -> ClearAllSlowdownsBody(s, c.actor)
      [] c.op = "ClearAll" -> ClearAllBody(s, c.live)
      [] OTHER -> s

Result(s, c) ==
    IF c.op = "IsActorSlowed" THEN IsActorSlowedBody(s, c.actor) ELSE FALSE

----------------------------------------------------------------------------
(* AnimationEventHandler *)

NonActor == <<"nonActor", 0>>     \* a holder that is no Actor

EventTags ==
    {"BowDrawn", "bowRelease", "BeginCastLeft", "BeginCastRight", "CastStop",
     "CastOKStop", "InterruptCast", "attackStop", "WeaponSheathe",
     "weaponSheathe", "BowRelease"}

EVENT_LOOKUP(tag) ==
    CASE tag = "BowDrawn" -> "BowDrawn"
      [] tag = "bowRelease" -> "BowRelease"
      [] tag = "BeginCastLeft" -> "BeginCastLeft"
      [] tag = "BeginCastRight" -> "BeginCastRight"
      [] tag = "CastStop" -> "CastStop"
      [] tag = "CastOKStop" -> "CastOKStop"
      [] tag = "InterruptCast" -> "InterruptCast"
      [] tag = "attackStop" -> "AttackStop"
      [] tag = "WeaponSheathe" -> "WeaponSheathe"
      [] tag = "weaponSheathe" -> "WeaponSheathe"
      [] OTHER -> "Unknown"

IsPlayerRef(actor) == actor = Player

\* What an actor holds: the right-hand object BowDrawn looks at, or the
\* selected spell of the hand a BeginCast event looks at.
NoItem == "none"
MagicItems == {"schoolSpell", "noSchoolSpell", "speedSpell", "scroll"}

\* A magic item: whether it is a SpellItem, its associated skill, and the
\* primary actor values of its effects.
MagicItem(spell) ==
    CASE spell = "schoolSpell" ->
            [isSpellItem |-> TRUE, school |-> "Destruction", primaryAV |-> {"Health"}]
      [] spell = "noSchoolSpell" ->
            [isSpellItem |-> TRUE, school |-> "None", primaryAV |-> {"Health"}]
      [] spell = "speedSpell" ->
            [isSpellItem |-> TRUE, school |-> "Alteration",
             primaryAV |-> {"Health", "SpeedMult"}]
      [] spell = "scroll" ->
            [isSpellItem |-> FALSE, school |-> "None", primaryAV |-> {"SpeedMult"}]

\* The actor values (tenths) of the player and of a non-player actor.
ActorValue(actor, av) ==
    IF IsPlayerRef(actor)
    THEN CASE av = "Archery" -> 600
           [] av = "Destruction" -> 200
           [] av = "Restoration" -> 300
           [] av = "Alteration" -> 400
           [] av = "Conjuration" -> 500
           [] av = "Illusion" -> 600
    ELSE CASE av = "Archery" -> 200
           [] av = "Destruction" -> 800
           [] av = "Restoration" -> 100
           [] av = "Alteration" -> 100
           [] av = "Conjuration" -> 100
           [] av = "Illusion" -> 150

GetMagicSkillLevel(actor, spell) ==
    IF spell = NoItem THEN 0
    ELSE IF ~MagicItem(spell).isSpellItem THEN 0
    ELSE IF MagicItem(spell).school = "None"
    THEN (ActorValue(actor, "Destruction") + ActorValue(actor, "Restoration")
            + ActorValue(actor, "Alteration") + ActorValue(actor, "Conjuration")
            + ActorValue(actor, "Illusion")) \div 5
    ELSE ActorValue(actor, MagicItem(spell).school)

SpellModifiesSpeed(spell) ==
    IF spell = NoItem THEN FALSE
    ELSE IF ~MagicItem(spell).isSpellItem THEN FALSE
    ELSE "SpeedMult" \in MagicItem(spell).primaryAV

\* The handlers give the calls they make, in order.  cfg is the Config read,
\* item the equipped object or selected spell, caster whether the actor's
\* instant MagicCaster exists.
OnBowDrawn(cfg, actor, item, caster) ==
    LET isPlayer == IsPlayerRef(actor)
        isCrossbow == item = "crossbow"
        type == IF isCrossbow THEN "Crossbow" ELSE "Bow"
    IN  IF cfg.applySlowdownCastingToNPCsOnly /\ isPlayer THEN <<>>
        ELSE IF ~cfg.applySlowdownCastingToNPCsOnly /\ ~isPlayer /\ ~cfg.applyToNPCs
        THEN <<>>
        ELSE IF isCrossbow /\ ~cfg.enableCrossbowDebuff THEN <<>>
        ELSE IF ~isCrossbow /\ ~cfg.enableBowDebuff THEN <<>>
        ELSE <<ApplyCall(actor, type, ActorValue(actor, "Archery"), caster)>>

OnBeginCast(cfg, actor, type, spell, caster) ==
    LET isPlayer == IsPlayerRef(actor)
    IN  IF ~cfg.enableCastDebuff THEN <<>>
        ELSE IF cfg.applySlowdownCastingToNPCsOnly /\ isPlayer THEN <<>>
        ELSE IF ~cfg.applySlowdownCastingToNPCsOnly /\ ~isPlayer /\ ~cfg.applyToNPCs
        THEN <<>>
        ELSE IF spell = NoItem THEN <<>>
        ELSE IF SpellModifiesSpeed(spell) THEN <<>>
        ELSE <<ApplyCall(actor, type, GetMagicSkillLevel(actor, spell), caster)>>

OnBeginCastLeft(cfg, actor, spell, caster) ==
    OnBeginCast(cfg, actor, "CastLeft", spell, caster)

OnBeginCastRight(cfg, actor, spell, caster) ==
    OnBeginCast(cfg, actor, "CastRight", spell, caster)

OnCastRelease_LeftOnly(actor) == <<RemoveCall(actor, "CastLeft")>>

OnCastRelease(actor) ==
    <<RemoveCall(actor, "CastLeft"), RemoveCall(actor, "CastRight"),
      RemoveCall(actor, "DualCast")>>

OnAttackStop(actor) == <<ClearCall(actor)>>

\* The switch of ProcessEvent.  An IsActorSlowed call in the list guards the
\* calls after it: they are made only when it returns true.
Dispatch(cfg, actor, type, item, caster) ==
    CASE type = "BowDrawn" -> OnBowDrawn(cfg, actor, item, caster)
      [] type = "BowRelease" ->
            <<RemoveCall(actor, "Bow"), RemoveCall(actor, "Crossbow")>>
      [] type = "BeginCastLeft" -> OnBeginCastLeft(cfg, actor, item, caster)
      [] type = "BeginCastRight" -> OnBeginCastRight(cfg, actor, item, caster)
      [] type = "CastStop" -> OnCastRelease(actor)
      [] type \in {"CastOKStop", "InterruptCast"} ->
            <<IsSlowedCall(actor)>> \o OnCastRelease(actor)
      [] type = "AttackStop" -> <<IsSlowedCall(actor)>> \o OnAttackStop(actor)
      [] type = "WeaponSheathe" -> <<IsSlowedCall(actor), ClearCall(actor)>>
      [] OTHER -> <<>>

PassesGate_AnyActor(cfg, holder, inCombat) == holder \in Actors

PassesGate_NoCombatCheck(cfg, holder, inCombat) ==
    /\ holder \in Actors
    /\ IsPlayerRef(holder) \/ cfg.applyToNPCs

\* The gate of ProcessEvent: whether the event reaches the switch.
PassesGate(cfg, holder, inCombat) ==
    /\ holder \in Actors
    /\ IsPlayerRef(holder) \/ (cfg.applyToNPCs /\ inCombat)

Handler(cfg, e) ==
    IF ~PassesGate(cfg, e.holder, e.inCombat) THEN <<>>
    ELSE Dispatch(cfg, e.holder, EVENT_LOOKUP(e.tag), e.item, e.caster)

\* The calls of a handler run in order on store s: the store they leave
\* and the calls made, each with its result.
RECURSIVE RunCalls(_, _)
RunCalls(s, calls) ==
    IF calls = <<>> THEN [s |-> s, made |-> <<>>]
    ELSE LET c == Head(calls)
             r == Result(s, c)
             done == [c EXCEPT !.result = r]
         IN  IF c.op = "IsActorSlowed" /\ ~r
             THEN [s |-> s, made |-> <<done>>]
             ELSE LET rest == RunCalls(Exec(s, c), Tail(calls))
                  IN  [s |-> rest.s, made |-> <<done>> \o rest.made]

----------------------------------------------------------------------------
(* One thread: a public call, or an event's handler, runs to completion   *)
(* (lock, body, unlock) before the next one starts.                       *)

Threads == {"t1", "t2"}
NoThread == "none"

NoEvent ==
    [holder |-> NullActor, tag |-> "none", inCombat |-> FALSE, item |-> NoItem,
     caster |-> FALSE, made |-> <<>>]

Run(c) ==
    /\ mutex = NoThread
    /\ actorStates' = Exec(Store, c).st
    /\ effects' = Exec(Store, c).fx
    /\ last' = [c EXCEPT !.result = Result(Store, c)]
    /\ again' = (c = [last EXCEPT !.result = FALSE])
    /\ pre' = Store
    /\ event' = NoEvent
    /\ UNCHANGED <<handles, config, threads, subject>>

ApplySlowdown(actor, type, skillLevel, caster) ==
    Run(ApplyCall(actor, type, skillLevel, caster))

RemoveSlowdown(actor, type) == Run(RemoveCall(actor, type))

ClearAllSlowdowns(actor) == Run(ClearCall(actor))

ClearAll(live) == Run(ClearAllCall(live))

IsActorSlowed(actor) == Run(IsSlowedCall(actor))

ProcessEvent(holder, tag, inCombat, item, caster) ==
    LET e == [holder |-> holder, tag |-> tag, inCombat |-> inCombat,
              item |-> item, caster |-> caster, made |-> <<>>]
        r == RunCalls(Store, Handler(config, e))
    IN  /\ mutex = NoThread
        /\ actorStates' = r.s.st
        /\ effects' = r.s.fx
        /\ event' = [e EXCEPT !.made = r.made]
        /\ pre' = Store
        /\ last' = NoCall
        /\ again' = FALSE
        /\ UNCHANGED <<handles, config, threads, subject>>

\* Config::Load: the settings file gives the switches any values.
Switches ==
    {"applyToNPCs", "applySlowdownCastingToNPCsOnly", "enableBowDebuff",
     "enableCrossbowDebuff", "enableCastDebuff", "enableDualCastDebuff"}

WithSwitches(on) ==
    [DefaultConfig EXCEPT
        !.applyToNPCs = "applyToNPCs" \in on,
        !.applySlowdownCastingToNPCsOnly = "applySlowdownCastingToNPCsOnly" \in on,
        !.enableBowDebuff = "enableBowDebuff" \in on,
        !.enableCrossbowDebuff = "enableCrossbowDebuff" \in on,
        !.enableCastDebuff = "enableCastDebuff" \in on,
        !.enableDualCastDebuff = "enableDualCastDebuff" \in on]

ConfigLoad(on) ==
    /\ config' = WithSwitches(on)
    /\ event' = NoEvent
    /\ UNCHANGED <<store, handles, threads, subject, last, again, pre>>

----------------------------------------------------------------------------
(* Spec: one actor's state machine driven by direct calls from one thread, *)
(* every effect handle resolved, the default configuration.               *)

AllResolved == [sp \in Spells |-> TRUE]

InitThreads ==
    /\ mutex = NoThread
    /\ pc = [t \in Threads |-> "idle"]
    /\ todo = [t \in Threads |-> <<>>]
    /\ slowed = [t \in Threads |-> FALSE]

InitHistory ==
    /\ last = NoCall
    /\ again = FALSE
    /\ event = NoEvent
    /\ pre = EmptyStore

Init ==
    /\ actorStates = NoActorStates
    /\ effects = NoEffects
    /\ handles = AllResolved
    /\ config = DefaultConfig
    /\ subject = Player
    /\ InitThreads
    /\ InitHistory

Next ==
    \/ \E a \in {subject, NullActor}, ty \in SlowType, sk \in Skills, c \in BOOLEAN :
          ApplySlowdown(a, ty, sk, c)
    \/ \E a \in {subject, NullActor}, ty \in SlowType : RemoveSlowdown(a, ty)
    \/ \E a \in {subject, NullActor} : ClearAllSlowdowns(a)
    \/ \E live \in SUBSET {subject} : ClearAll(live)
    \/ \E a \in {subject, NullActor} : IsActorSlowed(a)

Spec == Init /\ [][Next]_vars

\* SpecApplyRemove: as Spec, with no call but ApplySlowdown and
\* RemoveSlowdown of the sources Bow, Crossbow, CastLeft and CastRight.
HandSources == SlowType \ {"DualCast"}

NextApplyRemove ==
    \/ \E ty \in HandSources, sk \in Skills, c \in BOOLEAN :
          ApplySlowdown(subject, ty, sk, c)
    \/ \E ty \in HandSources : RemoveSlowdown(subject, ty)

SpecApplyRemove == Init /\ [][NextApplyRemove]_vars

----------------------------------------------------------------------------
(* SpecEvents: one actor's animation events, processed by one thread,     *)
(* under every setting of the two actor-gating switches.  The actor's     *)
(* instant MagicCaster exists.                                            *)

ItemsFor(tag) ==
    CASE tag = "BowDrawn" -> {NoItem, "bow", "crossbow"}
      [] tag \in {"BeginCastLeft", "BeginCastRight"} -> MagicItems \cup {NoItem}
      [] OTHER -> {NoItem}

GatingSwitches == {"applyToNPCs", "applySlowdownCastingToNPCsOnly"}
Toggles == Switches \ GatingSwitches

InitEvents ==
    /\ actorStates = NoActorStates
    /\ effects = NoEffects
    /\ handles = AllResolved
    /\ \E on \in SUBSET GatingSwitches : config = WithSwitches(on \cup Toggles)
    /\ subject \in Actors
    /\ InitThreads
    /\ InitHistory

NextEvents ==
    \/ \E tag \in EventTags, inCombat \in BOOLEAN :
         \E item \in ItemsFor(tag) :
            ProcessEvent(subject, tag, inCombat, item, TRUE)
    \/ \E h \in {NullActor, NonActor}, tag \in {"BowDrawn", "CastStop"} :
            ProcessEvent(h, tag, FALSE, NoItem, TRUE)
    \/ \E on \in SUBSET GatingSwitches : ConfigLoad(on \cup Toggles)

SpecEvents == InitEvents /\ [][NextEvents]_vars

----------------------------------------------------------------------------
(* Several threads.  A thread makes the calls of one handler, or one      *)
(* direct call, one after the other; each call takes actorStatesMutex     *)
(* (std::lock_guard), runs its body and releases it when it returns.      *)

CurrentCall(t) == Head(todo[t])

\* The call returns at its null check, before the lock_guard.
ReturnsEarly(c) == c.op # "ClearAll" /\ c.actor = NullActor

\* What is left of the handler once the current call has returned r.
Remaining(t, r) ==
    IF CurrentCall(t).op = "IsActorSlowed" /\ ~r THEN <<>> ELSE Tail(todo[t])

Return(t, r) ==
    /\ todo' = [todo EXCEPT ![t] = Remaining(t, r)]
    /\ pc' = [pc EXCEPT ![t] = IF Remaining(t, r) = <<>> THEN "idle" ELSE "call"]
    /\ slowed' = [slowed EXCEPT ![t] = FALSE]

Start(t, calls) ==
    /\ pc[t] = "idle"
    /\ calls # <<>>
    /\ todo' = [todo EXCEPT ![t] = calls]
    /\ pc' = [pc EXCEPT ![t] = "call"]
    /\ UNCHANGED <<store, handles, config, mutex, slowed, subject, history>>

NullReturn(t) ==
    /\ pc[t] = "call"
    /\ ReturnsEarly(CurrentCall(t))
    /\ Return(t, FALSE)
    /\ UNCHANGED <<store, handles, config, mutex, subject, history>>

CanLock_Always(t) == TRUE

\* std::lock_guard<std::mutex> lock(actorStatesMutex) blocks while another
\* thread holds the mutex.
CanLock(t) == mutex = NoThread

Lock(t) ==
    /\ pc[t] = "call"
    /\ ~ReturnsEarly(CurrentCall(t))
    /\ CanLock(t)
    /\ mutex' = t
    /\ pc' = [pc EXCEPT ![t] = "locked"]
    /\ UNCHANGED <<store, handles, config, todo, slowed, subject, history>>

Relocks_PublicCheck(c) == c.op = "RemoveSlowdown"

\* Whether the body of a public operation, run under its lock_guard, calls
\* something that locks actorStatesMutex again.  None does: the bodies call
\* only the private helpers (RemoveSlowdown asks IsActorSlowedInternal, not
\* IsActorSlowed), and none of these takes the mutex.
Relocks(c) == FALSE

\* The body runs while the thread holds the mutex; a second lock of the
\* std::mutex by the thread that holds it would never be granted.
Body(t) ==
    /\ pc[t] = "locked"
    /\ ~Relocks(CurrentCall(t))
    /\ actorStates' = Exec(Store, CurrentCall(t)).st
    /\ effects' = Exec(Store, CurrentCall(t)).fx
    /\ slowed' = [slowed EXCEPT ![t] = Result(Store, CurrentCall(t))]
    /\ pc' = [pc EXCEPT ![t] = "return"]
    /\ UNCHANGED <<handles, config, mutex, todo, subject, history>>

\* The lock_guard's destructor, at the call's return.
Unlock(t) ==
    /\ pc[t] = "return"
    /\ mutex' = NoThread
    /\ Return(t, slowed[t])
    /\ UNCHANGED <<store, handles, config, subject, history>>

\* SpecThreads: two threads deliver the player's animation events and make
\* direct calls for the player, in any interleaving.
ThreadItems(tag) ==
    CASE tag = "BowDrawn" -> {"bow", "crossbow"}
      [] tag \in {"BeginCastLeft", "BeginCastRight"} -> {"schoolSpell"}
      [] OTHER -> {NoItem}

EventWork ==
    UNION {{Handler(config, [holder |-> subject, tag |-> tag, inCombat |-> TRUE,
                             item |-> item, caster |-> TRUE, made |-> <<>>]) :
              item \in ThreadItems(tag)} : tag \in EventTags}

DirectWork ==
    {<<ApplyCall(subject, "DualCast", 600, TRUE)>>,
     <<ClearAllCall({subject})>>,
     <<IsSlowedCall(subject)>>,
     <<IsSlowedCall(NullActor)>>}

InitThreaded ==
    /\ actorStates = NoActorStates
    /\ effects = NoEffects
    /\ handles = AllResolved
    /\ config = DefaultConfig
    /\ subject = Player
    /\ InitThreads
    /\ InitHistory

NextThreads ==
    \E t \in Threads :
        \/ \E calls \in EventWork \cup DirectWork : Start(t, calls)
        \/ NullReturn(t)
        \/ Lock(t)
        \/ Body(t)
        \/ Unlock(t)

SpecThreads == InitThreaded /\ [][NextThreads]_vars

----------------------------------------------------------------------------
(* SpecMagnitude: CalculateMagnitude on the skill levels at and around the *)
(* tier boundaries, under a configuration whose four tables all differ.   *)
(* The inputs reach it through ApplySlowdown, which casts the spell with  *)
(* the magnitude it returns.                                              *)

\* 25, 25.1, 50, 60, 75, 75.1 and 100.
BoundarySkills == {250, 251, 500, 600, 750, 751, 1000}

TablesConfig ==
    [DefaultConfig EXCEPT
        !.bowMultipliers = <<50, 60, 70, 80>>,
        !.crossbowMultipliers = <<45, 55, 65, 75>>,
        !.castMultipliers = <<52, 62, 72, 82>>,
        !.dualCastMultipliers = <<40, 48, 58, 68>>]

InitMagnitude ==
    /\ actorStates = NoActorStates
    /\ effects = NoEffects
    /\ handles = AllResolved
    /\ config = TablesConfig
    /\ subject = Player
    /\ InitThreads
    /\ InitHistory

NextMagnitude ==
    \/ \E ty \in SlowType, sk \in BoundarySkills :
          ApplySlowdown(subject, ty, sk, TRUE)
    \/ ClearAllSlowdowns(subject)

SpecMagnitude == InitMagnitude /\ [][NextMagnitude]_vars

----------------------------------------------------------------------------
(* SpecNullActor: the public operations called with a null actor, and     *)
(* events with no holder or with a holder that is no actor, in between    *)
(* calls that slow and release the player.                                *)

NextNullActor ==
    \/ \E ty \in HandSources : ApplySlowdown(subject, ty, 600, TRUE)
    \/ \E ty \in HandSources : RemoveSlowdown(subject, ty)
    \/ \E ty \in SlowType, sk \in Skills, c \in BOOLEAN :
          ApplySlowdown(NullActor, ty, sk, c)
    \/ \E ty \in SlowType : RemoveSlowdown(NullActor, ty)
    \/ ClearAllSlowdowns(NullActor)
    \/ IsActorSlowed(NullActor)
    \/ \E h \in {NullActor, NonActor}, tag \in EventTags, inCombat \in BOOLEAN :
          ProcessEvent(h, tag, inCombat, NoItem, TRUE)

SpecNullActor == Init /\ [][NextNullActor]_vars

----------------------------------------------------------------------------
(* SpecHandles: Initialize has resolved any subset of the four spell      *)
(* handles; the player is slowed and released by direct calls.            *)

InitHandles ==
    /\ actorStates = NoActorStates
    /\ effects = NoEffects
    /\ handles \in [Spells -> BOOLEAN]
    /\ config = DefaultConfig
    /\ subject = Player
    /\ InitThreads
    /\ InitHistory

NextHandles ==
    \/ \E ty \in SlowType, sk \in Skills : ApplySlowdown(subject, ty, sk, TRUE)
    \/ \E ty \in SlowType : RemoveSlowdown(subject, ty)
    \/ ClearAllSlowdowns(subject)

SpecHandles == InitHandles /\ [][NextHandles]_vars

----------------------------------------------------------------------------
(* SpecToggles: the player's animation events under every setting of the  *)
(* four per-source toggles, the actor-gating switches at their defaults.  *)

InitToggles ==
    /\ actorStates = NoActorStates
    /\ effects = NoEffects
    /\ handles = AllResolved
    /\ \E on \in SUBSET Toggles : config = WithSwitches(on)
    /\ subject = Player
    /\ InitThreads
    /\ InitHistory

NextToggles ==
    \/ \E tag \in EventTags :
         \E item \in ThreadItems(tag) :
            ProcessEvent(subject, tag, TRUE, item, TRUE)
    \/ \E on \in SUBSET Toggles : ConfigLoad(on)

SpecToggles == InitToggles /\ [][NextToggles]_vars

\* SpecThreadsFair: SpecThreads under fair scheduling: a thread that is
\* inside a call takes its next step, and a thread waiting for the mutex gets
\* it if it is free again and again.
FairThreads ==
    \A t \in Threads :
        /\ WF_vars(NullReturn(t))
        /\ SF_vars(Lock(t))
        /\ WF_vars(Body(t))
        /\ WF_vars(Unlock(t))

SpecThreadsFair == SpecThreads /\ FairThreads

----------------------------------------------------------------------------
(* Properties *)

Dispelled == {}
RangedEffects(fxa) ==
    {e \in fxa : e.spell \in {"bowDebuffSpell", "crossbowDebuffSpell"}}
CastEffects(fxa) ==
    {e \in fxa : e.spell \in {"castingDebuffSpell", "dualCastDebuffSpell"}}
Tracked(a) == a \in DOMAIN actorStates

\* C1 (exact restore).  After any sequence of ApplySlowdown / RemoveSlowdown
\* calls of the sources Bow, Crossbow, CastLeft and CastRight (SpecApplyRemove,
\* every handle resolved) that leaves an actor without an entry, none of the
\* four penalty effects is in force on that actor.
C1_ExactRestore ==
    \A a \in Actors : ~Tracked(a) => effects[a] = Dispelled

\* C2 (map/flag invariant).  An actor has an entry in actorStates if and only
\* if at least one of its four flags is set.
C2_EntryIffFlag ==
    \A a \in Actors :
        Tracked(a) <=>
            /\ Tracked(a)
            /\ \/ actorStates[a].bowSlowActive
               \/ actorStates[a].castLeftActive
               \/ actorStates[a].castRightActive
               \/ actorStates[a].dualCastActive

\* C3 (derived flag).  In every state of every interleaving of the threads'
\* calls, dualCastActive implies castLeftActive and castRightActive for every
\* tracked actor.
C3_DualImpliesBothHands ==
    \A a \in DOMAIN actorStates :
        actorStates[a].dualCastActive =>
            actorStates[a].castLeftActive /\ actorStates[a].castRightActive

\* C3's case: an actor is dual casting while both threads are inside calls.
C3_Witness ==
    /\ \E a \in DOMAIN actorStates : actorStates[a].dualCastActive
    /\ \A t \in Threads : pc[t] # "idle"

\* C4 (dual-cast symmetry).  From an untracked actor with no penalty,
\* ApplySlowdown of one hand and then of the other hand, in either order, ends
\* with dualCastActive set and with the dual-cast penalty
\* 100 - dualCastMultipliers[tier] as the only penalty in force.
C4_DualCastSymmetry ==
    \A a \in Actors, sk \in Skills :
      \A hands \in {<<"CastLeft", "CastRight">>, <<"CastRight", "CastLeft">>} :
        (/\ last = ApplyCall(a, hands[2], last.skill, TRUE)
         /\ pre = Exec(EmptyStore, ApplyCall(a, hands[1], sk, TRUE)))
        => /\ Tracked(a)
           /\ actorStates[a].dualCastActive
           /\ effects[a] =
                {[spell |-> "dualCastDebuffSpell",
                  magnitude |-> 100 - config.dualCastMultipliers[Tier(last.skill) + 1]]}

\* C5 (priority on partial release).  For an actor with Bow and CastLeft both
\* active and a ranged penalty in force, RemoveSlowdown(CastLeft) leaves
\* bowSlowActive set, the ranged penalty as it was, and no cast penalty.
C5_BowGovernsAfterCastRelease ==
    \A a \in Actors :
        (/\ last = RemoveCall(a, "CastLeft")
         /\ a \in DOMAIN pre.st
         /\ pre.st[a].bowSlowActive
         /\ pre.st[a].castLeftActive
         /\ ~pre.st[a].castRightActive
         /\ RangedEffects(pre.fx[a]) # {})
        => /\ Tracked(a)
           /\ actorStates[a].bowSlowActive
           /\ RangedEffects(effects[a]) = RangedEffects(pre.fx[a])
           /\ CastEffects(effects[a]) = {}

\* C6 (idempotent clearing).  When ClearAllSlowdowns is called for an actor
\* twice in a row, the second call changes neither the map nor any effect, and
\* the actor has no entry afterwards.
C6_IdempotentClear ==
    \A a \in Actors :
        (last = ClearCall(a) /\ again)
        => /\ ~Tracked(a)
           /\ actorStates = pre.st
           /\ effects = pre.fx

\* C6's case: the second of two ClearAllSlowdowns calls in a row has returned.
C6_Witness ==
    /\ last = ClearCall(Player)
    /\ again

\* C7 (gating).  An animation event whose holder is a non-player actor that is
\* not in combat, or that arrives while applyToNPCs is off, makes no call to the
\* state machine and changes neither the map nor any effect: the store after
\* the event is the store before it.  (config is the configuration the event
\* was processed under: ConfigLoad forgets the last event.)
C7_NpcGating ==
    (/\ event.holder \in NPCs
     /\ ~config.applyToNPCs \/ ~event.inCombat)
    => /\ event.made = <<>>
       /\ actorStates = pre.st
       /\ effects = pre.fx

\* C7's case: a cast event of a slowed non-player actor that has left combat
\* has been processed with applyToNPCs on.
C7_Witness ==
    /\ event.holder \in NPCs
    /\ event.tag = "BeginCastRight"
    /\ event.item = "schoolSpell"
    /\ ~event.inCombat
    /\ config.applyToNPCs
    /\ Tracked(event.holder)

\* C8 (ranged gating ignores the casting-NPCs-only switch).  The calls a
\* BowDrawn event makes are the calls it would make with
\* applySlowdownCastingToNPCsOnly flipped and everything else the same.
C8_BowDrawnIgnoresCastingSwitch ==
    (event.tag = "BowDrawn" /\ event.holder \in Actors)
    => event.made =
          Handler([config EXCEPT !.applySlowdownCastingToNPCsOnly = ~@],
                  [event EXCEPT !.made = <<>>])

\* C9 (the casting-NPCs-only switch overrides applyToNPCs for casting).  With
\* applySlowdownCastingToNPCsOnly and the cast toggle on and a spell that does
\* not modify speed selected, a BeginCast event of a non-player actor in combat
\* makes the ApplySlowdown call of its hand whatever applyToNPCs is, and the
\* same event of the player makes no call.
C9_CastingSwitchOverridesNpcGate ==
    \A hand \in {"Left", "Right"} :
        (/\ event.tag = "BeginCast" \o hand
         /\ event.holder \in Actors
         /\ config.applySlowdownCastingToNPCsOnly
         /\ config.enableCastDebuff
         /\ event.item # NoItem
         /\ ~SpellModifiesSpeed(event.item)
         /\ IsPlayerRef(event.holder) \/ event.inCombat)
        => event.made =
              IF IsPlayerRef(event.holder) THEN <<>>
              ELSE <<ApplyCall(event.holder, "Cast" \o hand,
                               GetMagicSkillLevel(event.holder, event.item),
                               event.caster)>>

\* C10 (mutual exclusion).  A thread is inside the body of a public operation
\* only while it holds actorStatesMutex, it holds the mutex at no other time,
\* and no two threads are inside a body at once.
C10_MutualExclusion ==
    /\ \A t \in Threads : pc[t] \in {"locked", "return"} <=> mutex = t
    /\ Cardinality({t \in Threads : pc[t] \in {"locked", "return"}}) <= 1

\* C10's case: one thread is inside a body while another waits for the mutex.
C10_Witness ==
    \E t, u \in Threads :
        /\ pc[t] = "locked"
        /\ pc[u] = "call"
        /\ ~ReturnsEarly(CurrentCall(u))

\* C11 (tier table).  ApplySlowdown casts its spell with the magnitude
\* CalculateMagnitude gives for the skill level and the source it is called
\* with (DualCast once both hands are active, the source of the call
\* otherwise): 100 minus the entry (in percent) of that source's own table at
\* the tier of the skill level.  Tier 0 is up to 25, 1 up to 50, 2 up to 75,
\* 3 above: 25, 25.1, 50, 75, 75.1 and 100 are in tiers 0, 1, 1, 2, 3, 3, and
\* skill 60 with the bow table gives multiplier 0.7.
C11_TierTable ==
    \A a \in Actors :
        (/\ last.op = "ApplySlowdown"
         /\ last.actor = a
         /\ last.caster
         /\ last.type # "DualCast")
        => LET tier == CASE last.skill = 250 -> 0
                         [] last.skill = 251 -> 1
                         [] last.skill = 500 -> 1
                         [] last.skill = 600 -> 2
                         [] last.skill = 750 -> 2
                         [] last.skill = 751 -> 3
                         [] last.skill = 1000 -> 3
               source == IF actorStates[a].castLeftActive
                            /\ actorStates[a].castRightActive
                         THEN "DualCast" ELSE last.type
               table == CASE source = "Bow" -> config.bowMultipliers
                          [] source = "Crossbow" -> config.crossbowMultipliers
                          [] source = "DualCast" -> config.dualCastMultipliers
                          [] OTHER -> config.castMultipliers
               spell == CASE source = "Bow" -> "bowDebuffSpell"
                          [] source = "Crossbow" -> "crossbowDebuffSpell"
                          [] source = "DualCast" -> "dualCastDebuffSpell"
                          [] OTHER -> "castingDebuffSpell"
           IN  /\ \E e \in effects[a] : e.spell = spell
               /\ \A e \in effects[a] :
                     e.spell = spell => e.magnitude = 100 - table[tier + 1]
               /\ (source = "Bow" /\ last.skill = 600) => table[tier + 1] = 70

\* C11's case: a cast with the second hand at skill 25.1 has applied the
\* dual-cast penalty of tier 1.
C11_Witness ==
    /\ last = ApplyCall(Player, "CastRight", 251, TRUE)
    /\ Player \in DOMAIN pre.st
    /\ pre.st[Player].castLeftActive
    /\ [spell |-> "dualCastDebuffSpell", magnitude |-> 52] \in effects[Player]

\* C12 (null actor).  ApplySlowdown, RemoveSlowdown and ClearAllSlowdowns with
\* a null actor leave the map and every actor's effects as they were,
\* IsActorSlowed of a null actor returns false, and an event with no holder or
\* with a holder that is no actor makes no call and changes nothing.
C12_NullActorNoOp ==
    /\ (/\ last.actor = NullActor
        /\ last.op \in {"ApplySlowdown", "RemoveSlowdown", "ClearAllSlowdowns",
                        "IsActorSlowed"})
       => /\ actorStates = pre.st
          /\ effects = pre.fx
          /\ ~last.result
    /\ (event.tag \in EventTags /\ event.holder \in {NullActor, NonActor})
       => /\ event.made = <<>>
          /\ actorStates = pre.st
          /\ effects = pre.fx

\* C12's case: ApplySlowdown with a null actor has returned while the player
\* is slowed.
C12_Witness ==
    /\ last.op = "ApplySlowdown"
    /\ last.actor = NullActor
    /\ Tracked(Player)
    /\ effects[Player] # {}

\* C13 (unresolved handle).  An ApplySlowdown whose spell handle -- the bow,
\* crossbow or cast handle of its source, or the dual-cast handle once both
\* hands are active -- is null returns with every actor's effects as they
\* were; one whose handle resolved has cast that spell on the actor.
C13_NullHandleSkips ==
    \A a \in Actors :
        (/\ last.op = "ApplySlowdown"
         /\ last.actor = a
         /\ last.caster
         /\ last.type # "DualCast")
        => LET spell ==
                 IF actorStates[a].castLeftActive /\ actorStates[a].castRightActive
                 THEN "dualCastDebuffSpell"
                 ELSE CASE last.type = "Bow" -> "bowDebuffSpell"
                        [] last.type = "Crossbow" -> "crossbowDebuffSpell"
                        [] OTHER -> "castingDebuffSpell"
           IN  IF handles[spell]
               THEN \E e \in effects[a] : e.spell = spell
               ELSE effects = pre.fx

\* C13's case: the cast handle is null, the bow handle resolved, and a
\* CastLeft apply has returned for an actor that carries the bow penalty.
C13_Witness ==
    /\ ~handles["castingDebuffSpell"]
    /\ handles["bowDebuffSpell"]
    /\ last.op = "ApplySlowdown"
    /\ last.actor = Player
    /\ last.type = "CastLeft"
    /\ \E e \in effects[Player] : e.spell = "bowDebuffSpell"

\* C14 (IsActorSlowed).  IsActorSlowed(actor) returns true exactly when the
\* actor has an entry with at least one of its four flags set, and leaves the
\* map, the flags and every actor's effects as they were.
C14_IsActorSlowedPure ==
    last.op = "IsActorSlowed"
    => /\ last.result <=>
            /\ last.actor \in DOMAIN pre.st
            /\ \/ pre.st[last.actor].bowSlowActive
               \/ pre.st[last.actor].castLeftActive
               \/ pre.st[last.actor].castRightActive
               \/ pre.st[last.actor].dualCastActive
       /\ actorStates = pre.st
       /\ effects = pre.fx

\* C14's case: IsActorSlowed has returned true for a slowed actor.
C14_Witness ==
    /\ last.op = "IsActorSlowed"
    /\ last.actor = Player
    /\ last.result
    /\ effects[Player] # {}

\* C15 (CastStop cleanup).  After a CastStop event of an actor that passes the
\* gate, the actor's castLeftActive, castRightActive and dualCastActive are
\* all false and neither the cast nor the dual-cast penalty is in force on it.
C15_CastStopCleansUp ==
    (/\ event.tag = "CastStop"
     /\ PassesGate(config, event.holder, event.inCombat))
    => /\ Tracked(event.holder) =>
            /\ ~actorStates[event.holder].castLeftActive
            /\ ~actorStates[event.holder].castRightActive
            /\ ~actorStates[event.holder].dualCastActive
       /\ CastEffects(effects[event.holder]) = {}

\* C15's case: CastStop has been processed for an actor that was dual casting
\* with a bow drawn.
C15_Witness ==
    /\ event.tag = "CastStop"
    /\ PassesGate(config, event.holder, event.inCombat)
    /\ event.holder \in DOMAIN pre.st
    /\ pre.st[event.holder].dualCastActive
    /\ pre.st[event.holder].bowSlowActive
    /\ CastEffects(pre.fx[event.holder]) # {}

\* C16 (catch-all clear).  After an attackStop or a weapon sheathe event of an
\* actor that passes the gate: when the actor had an entry, it has none now
\* and none of the four penalties is in force on it; when it had no entry,
\* the map and every actor's effects are as they were.
C16_AttackStopClearsAll ==
    (/\ event.tag \in {"attackStop", "WeaponSheathe", "weaponSheathe"}
     /\ PassesGate(config, event.holder, event.inCombat))
    => IF event.holder \in DOMAIN pre.st
       THEN /\ ~Tracked(event.holder)
            /\ effects[event.holder] = Dispelled
       ELSE /\ actorStates = pre.st
            /\ effects = pre.fx

\* C16's case: attackStop has been processed for an actor that had a bow drawn
\* while casting with one hand, with both penalties in force.
C16_Witness ==
    /\ event.tag = "attackStop"
    /\ PassesGate(config, event.holder, event.inCombat)
    /\ event.holder \in DOMAIN pre.st
    /\ pre.st[event.holder].bowSlowActive
    /\ pre.st[event.holder].castLeftActive
    /\ RangedEffects(pre.fx[event.holder]) # {}
    /\ CastEffects(pre.fx[event.holder]) # {}

\* C17 (re-derivation on removal).  After a RemoveSlowdown of any source,
\* DualCast included, that leaves the actor's entry in place, dualCastActive
\* equals castLeftActive /\ castRightActive.
C17_RederivedOnRemoval ==
    \A a \in Actors :
        (/\ last.op = "RemoveSlowdown"
         /\ last.actor = a
         /\ Tracked(a))
        => actorStates[a].dualCastActive =
              (actorStates[a].castLeftActive /\ actorStates[a].castRightActive)

\* C18 (release from dual cast to one hand).  For an actor with both cast
\* flags set, dualCastActive set, no ranged flag and the dual-cast penalty in
\* force, RemoveSlowdown of one hand leaves the other hand's flag set and
\* dualCastActive false, with the single-hand cast penalty in force and the
\* dual-cast penalty no longer in force.
C18_DualToOneHand ==
    \A a \in Actors :
      \A hands \in {<<"CastLeft", "CastRight">>, <<"CastRight", "CastLeft">>} :
        (/\ last = RemoveCall(a, hands[1])
         /\ a \in DOMAIN pre.st
         /\ pre.st[a].castLeftActive
         /\ pre.st[a].castRightActive
         /\ pre.st[a].dualCastActive
         /\ ~pre.st[a].bowSlowActive
         /\ \E e \in pre.fx[a] : e.spell = "dualCastDebuffSpell")
        => /\ Tracked(a)
           /\ actorStates[a].castLeftActive = (hands[2] = "CastLeft")
           /\ actorStates[a].castRightActive = (hands[2] = "CastRight")
           /\ ~actorStates[a].dualCastActive
           /\ \E e \in effects[a] : e.spell = "castingDebuffSpell"
           /\ ~\E e \in effects[a] : e.spell = "dualCastDebuffSpell"

\* C19 (per-source toggles).  A BowDrawn event with a bow while
\* enableBowDebuff is off, or with a crossbow while enableCrossbowDebuff is
\* off, and a BeginCastLeft / BeginCastRight event while enableCastDebuff is
\* off, make no call and change nothing; and while enableDualCastDebuff is off
\* no event applies the dual-cast penalty.
C19_TogglesSuppress ==
    /\ (/\ event.tag = "BowDrawn"
        /\ \/ event.item = "bow" /\ ~config.enableBowDebuff
           \/ event.item = "crossbow" /\ ~config.enableCrossbowDebuff)
       => /\ event.made = <<>>
          /\ actorStates = pre.st
          /\ effects = pre.fx
    /\ (/\ event.tag \in {"BeginCastLeft", "BeginCastRight"}
        /\ ~config.enableCastDebuff)
       => /\ event.made = <<>>
          /\ actorStates = pre.st
          /\ effects = pre.fx
    /\ (/\ event.tag \in EventTags
        /\ ~config.enableDualCastDebuff)
       => \A e \in effects[event.holder] :
             e.spell = "dualCastDebuffSpell" => e \in pre.fx[event.holder]

\* C20 (ClearAll).  After ClearAll the map is empty; every actor that had an
\* entry and still resolves has none of the four penalties in force; an actor
\* that had an entry and no longer resolves keeps its effects as they were,
\* and so does every actor that had no entry.
C20_ClearAllEmpties ==
    last.op = "ClearAll"
    => /\ actorStates = NoActorStates
       /\ \A a \in Actors : ~IsActorSlowedBody(Store, a)
       /\ \A a \in Actors :
            effects[a] = IF a \in DOMAIN pre.st /\ a \in last.live
                         THEN Dispelled
                         ELSE pre.fx[a]

\* C20's case: ClearAll has run while the player, slowed by two sources with
\* both penalties in force, still resolved.
C20_Witness ==
    /\ last.op = "ClearAll"
    /\ Player \in last.live
    /\ Player \in DOMAIN pre.st
    /\ RangedEffects(pre.fx[Player]) # {}
    /\ CastEffects(pre.fx[Player]) # {}

\* C21 (deadlock freedom).  Under fair scheduling, in every interleaving of
\* the threads' calls, a thread that has started a handler or a direct call
\* eventually has returned from every call of it, not holding
\* actorStatesMutex.
C21_EveryCallReturns ==
    \A t \in Threads : (pc[t] # "idle") ~> (pc[t] = "idle" /\ mutex # t)

\* C21's case: a thread is inside the body of RemoveSlowdown for a tracked
\* actor, where the operation asks whether the actor is still slowed, while
\* the other thread waits for the mutex.
C21_Witness ==
    \E t, u \in Threads :
        /\ pc[t] = "locked"
        /\ CurrentCall(t).op = "RemoveSlowdown"
        /\ Tracked(CurrentCall(t).actor)
        /\ pc[u] = "call"
        /\ ~ReturnsEarly(CurrentCall(u))

\* C22 (release events are gated too).  A release or clear event -- bowRelease,
\* CastStop, CastOKStop, InterruptCast, attackStop, weapon sheathe -- of a
\* non-player actor that has an entry, arriving while the actor is not in
\* combat or while applyToNPCs is off, makes no call and leaves the actor's
\* entry, its flags and its effects as they were.
C22_ReleaseEventsGated ==
    (/\ event.tag \in {"bowRelease", "CastStop", "CastOKStop", "InterruptCast",
                       "attackStop", "WeaponSheathe", "weaponSheathe"}
     /\ event.holder \in NPCs
     /\ event.holder \in DOMAIN pre.st
     /\ ~config.applyToNPCs \/ ~event.inCombat)
    => /\ event.made = <<>>
       /\ Tracked(event.holder)
       /\ actorStates[event.holder] = pre.st[event.holder]
       /\ effects[event.holder] = pre.fx[event.holder]

\* C22's case: CastStop has been processed for a non-player actor that was
\* slowed by a cast and has left combat, with applyToNPCs still on.
C22_Witness ==
    /\ event.tag = "CastStop"
    /\ event.holder \in NPCs
    /\ ~event.inCombat
    /\ config.applyToNPCs
    /\ event.holder \in DOMAIN pre.st
    /\ pre.st[event.holder].castLeftActive
    /\ CastEffects(pre.fx[event.holder]) # {}

\* C23 (flag before handle check).  An ApplySlowdown of Bow, Crossbow,
\* CastLeft or CastRight whose spell handle is null leaves the actor with an
\* entry and with the flag of that source set, so that IsActorSlowed is true
\* of it, and with its effects as they were.
C23_FlagSetBeforeHandleCheck ==
    \A a \in Actors :
        (/\ last.op = "ApplySlowdown"
         /\ last.actor = a
         /\ last.type \in HandSources
         /\ ~handles[IF /\ Tracked(a)
                        /\ actorStates[a].castLeftActive
                        /\ actorStates[a].castRightActive
                     THEN "dualCastDebuffSpell"
                     ELSE CASE last.type = "Bow" -> "bowDebuffSpell"
                            [] last.type = "Crossbow" -> "crossbowDebuffSpell"
                            [] OTHER -> "castingDebuffSpell"])
        => /\ Tracked(a)
           /\ CASE last.type \in {"Bow", "Crossbow"} -> actorStates[a].bowSlowActive
                [] last.type = "CastLeft" -> actorStates[a].castLeftActive
                [] last.type = "CastRight" -> actorStates[a].castRightActive
           /\ IsActorSlowedBody(Store, a)
           /\ effects[a] = pre.fx[a]

\* C23's case: with no handle resolved, ApplySlowdown(Bow) has returned for an
\* actor that had no entry.
C23_Witness ==
    /\ \A sp \in Spells : ~handles[sp]
    /\ last.op = "ApplySlowdown"
    /\ last.actor = Player
    /\ last.type = "Bow"
    /\ Player \notin DOMAIN pre.st
    /\ Tracked(Player)

====
